---- MODULE Spec2Model ----
(***************************************************************************)
(* Model of src/app.py: the cached loader load_data (GeoJSON features ->   *)
(* normalised facility rows, Excel registry) and the column accesses the   *)
(* dashboard script makes on what the loader returned.                     *)
(*                                                                         *)
(* Text is a sequence of one-character strings, so that str.isdigit,       *)
(* str.split, int() and the `in` substring test are computed, not assumed. *)
(* The alphabet is ASCII digits, "-", "+", ">" and SUP2, which stands for  *)
(* U+00B2 (superscript two): str.isdigit() accepts it and int() rejects    *)
(* it.  No whitespace and no "_" occur in the modelled texts.              *)
(***************************************************************************)
EXTENDS Integers, Sequences, FiniteSets, TLC

\* ------------------------------------------------------------ bounds
MaxLen == 3          \* longest generated capacity text
MaxFeatures == 2     \* features of the GeoJSON collection
MaxSortRows == 18    \* rows of the frames of the sort specification

\* ------------------------------------------------- program constants
DefaultCap == 100
OpenEndedCap == 600

\* --------------------------------------------------------- text (str)
AsciiDigits == {"0", "1", "2", "3", "4", "5", "6", "7", "8", "9"}

DigitVal == [c \in AsciiDigits |->
               CASE c = "0" -> 0 [] c = "1" -> 1 [] c = "2" -> 2 [] c = "3" -> 3
                 [] c = "4" -> 4 [] c = "5" -> 5 [] c = "6" -> 6 [] c = "7" -> 7
                 [] c = "8" -> 8 [] c = "9" -> 9]

DigitChar == [d \in 0..9 |-> CHOOSE c \in AsciiDigits : DigitVal[c] = d]

\* str.isdigit(): non-empty and every character has the Unicode Digit
\* property (the ASCII digits and, in this alphabet, SUP2).
isdigit(s) == Len(s) > 0 /\ \A k \in 1..Len(s) : s[k] \in AsciiDigits \cup {"SUP2"}

RECURSIVE DecimalValue(_)
DecimalValue(s) == IF s = <<>> THEN 0
                   ELSE 10 * DecimalValue(SubSeq(s, 1, Len(s) - 1)) + DigitVal[s[Len(s)]]

\* int(text): an optional sign, then one or more decimal digits; anything
\* else is a ValueError (ok = FALSE).
IntOfStr(s) ==
    LET signed == Len(s) > 0 /\ s[1] \in {"-", "+"}
        body   == IF signed THEN SubSeq(s, 2, Len(s)) ELSE s
        valid  == Len(body) > 0 /\ \A k \in 1..Len(body) : body[k] \in AsciiDigits
    IN IF ~valid THEN [ok |-> FALSE, v |-> 0]
       ELSE [ok |-> TRUE,
             v  |-> IF signed /\ s[1] = "-" THEN 0 - DecimalValue(body)
                    ELSE DecimalValue(body)]

RECURSIVE StrOfNat(_)
StrOfNat(n) == IF n < 10 THEN <<DigitChar[n]>>
               ELSE StrOfNat(n \div 10) \o <<DigitChar[n % 10]>>

\* str(n) of an int
StrOfInt(n) == IF n < 0 THEN <<"-">> \o StrOfNat(0 - n) ELSE StrOfNat(n)

\* `pat in s`
Contains(s, pat) ==
    \E k \in 1..(Len(s) - Len(pat) + 1) : SubSeq(s, k, k + Len(pat) - 1) = pat

\* s.split('-'): every "-" separates; the pieces never contain "-".
RECURSIVE split(_)
split(s) ==
    IF ~Contains(s, <<"-">>) THEN <<s>>
    ELSE LET k == CHOOSE j \in 1..Len(s) : s[j] = "-" /\ \A m \in 1..(j - 1) : s[m] # "-"
         IN <<SubSeq(s, 1, k - 1)>> \o split(SubSeq(s, k + 1, Len(s)))

\* ------------------------------------------------ raw capacity values
\* props.get('capacity') is None, a str or an int.
NoneCap == [t |-> "none", s |-> <<>>, n |-> 0]
StrCap(s) == [t |-> "str", s |-> s, n |-> 0]
IntCap(n) == [t |-> "int", s |-> <<>>, n |-> n]

\* truth value of raw_cap (line 44)
Truthy(raw) == CASE raw.t = "none" -> FALSE
                 [] raw.t = "str"  -> raw.s # <<>>
                 [] raw.t = "int"  -> raw.n # 0

\* str(raw_cap)
StrOf(raw) == IF raw.t = "str" THEN raw.s ELSE StrOfInt(raw.n)

\* int(raw_cap) at line 45
IntOf(raw) == IF raw.t = "int" THEN [ok |-> TRUE, v |-> raw.n] ELSE IntOfStr(raw.s)

\* line 47 inside its try: raw_cap.split('-')[0] and [1]; an int has no
\* split (AttributeError) and a piece that is no integer is a ValueError:
\* both are swallowed by the bare except of line 48 (ok = FALSE).
RangeAverage(raw) ==
    IF raw.t # "str" THEN [ok |-> FALSE, v |-> 0]
    ELSE LET parts == split(raw.s)
             a == IntOfStr(parts[1])
             b == IntOfStr(parts[2])
         IN IF a.ok /\ b.ok THEN [ok |-> TRUE, v |-> (a.v + b.v) \div 2]
            ELSE [ok |-> FALSE, v |-> 0]

\* the marker compared with the whole text instead of searched in it
CapacityLogicMutant(raw) ==
    IF ~Truthy(raw) THEN [raised |-> FALSE, cap |-> DefaultCap]
    ELSE LET s == StrOf(raw) IN
         IF isdigit(s)
         THEN LET r == IntOf(raw) IN
              IF r.ok THEN [raised |-> FALSE, cap |-> r.v] ELSE [raised |-> TRUE, cap |-> 0]
         ELSE IF Contains(s, <<"-">>)
         THEN LET r == RangeAverage(raw) IN
              [raised |-> FALSE, cap |-> IF r.ok THEN r.v ELSE DefaultCap]
         ELSE IF s = <<">", "5", "0", "0">>
         THEN [raised |-> FALSE, cap |-> OpenEndedCap]
         ELSE [raised |-> FALSE, cap |-> DefaultCap]

\* lines 42-49: raised = an exception escapes the capacity logic (int() of
\* an isdigit() text that is no decimal number, outside any inner try).
CapacityLogic(raw) ==
    IF ~Truthy(raw) THEN [raised |-> FALSE, cap |-> DefaultCap]
    ELSE LET s == StrOf(raw) IN
         IF isdigit(s)
         THEN LET r == IntOf(raw) IN
              IF r.ok THEN [raised |-> FALSE, cap |-> r.v] ELSE [raised |-> TRUE, cap |-> 0]
         ELSE IF Contains(s, <<"-">>)
         THEN LET r == RangeAverage(raw) IN
              [raised |-> FALSE, cap |-> IF r.ok THEN r.v ELSE DefaultCap]
         ELSE IF Contains(s, <<">", "5", "0", "0">>)
         THEN [raised |-> FALSE, cap |-> OpenEndedCap]
         ELSE [raised |-> FALSE, cap |-> DefaultCap]

\* --------------------------------------------------- occupancy, status
\* int(real_cap * 1.5): the product is exact in binary floating point for
\* every capacity below 2^52, and int() truncates a non-negative value down.
OccupancyHigh(cap) == (3 * cap) \div 2

\* occ >= real_cap * 0.8.  The double nearest 0.8 exceeds 0.8 by 2^-54 of
\* its value, less than half an ulp of any product below 2^53, so the
\* float product is the double nearest cap * 8 / 10 and the comparison
\* with an integer occ is the exact one.
AtLeastEightyPercent(o, cap) == 10 * o >= 8 * cap

\* lines 56-59
CapStatus(o, cap) ==
    IF o > cap THEN "Overcrowded (>100%)"
    ELSE IF AtLeastEightyPercent(o, cap) THEN "Near Full (80-99%)"
    ELSE "Available (<80%)"

\* the first test with >= for >
HealthRiskMutant(o, cap) ==
    IF o >= cap THEN "CRITICAL: High Infection Risk"
    ELSE IF AtLeastEightyPercent(o, cap) THEN "WARNING: Elevated Density"
    ELSE "SAFE: Social Distancing Possible"

\* lines 63-66
HealthRisk(o, cap) ==
    IF o > cap THEN "CRITICAL: High Infection Risk"
    ELSE IF AtLeastEightyPercent(o, cap) THEN "WARNING: Elevated Density"
    ELSE "SAFE: Social Distancing Possible"

\* ------------------------------------------------------------ geometry
\* A coordinate is absent (None) or a number, kept as a reduced fraction.
NoneNum == [k |-> "none", num |-> 0, den |-> 1]

RECURSIVE Gcd(_, _)
Gcd(a, b) == IF b = 0 THEN a ELSE Gcd(b, a % b)

Frac(n, d) == LET g == Gcd(n, d) IN [k |-> "num", num |-> n \div g, den |-> d \div g]

RECURSIVE ColumnSum(_, _)
ColumnSum(ring, c) == IF ring = <<>> THEN 0
                      ELSE ring[1][c] + ColumnSum(Tail(ring), c)

\* coords[:, c].mean() over the vertices of one ring
ColumnMean(ring, c) == Frac(ColumnSum(ring, c), Len(ring))

\* A geometry is [type, point, rings, polygons]: geom['coordinates'] is
\* `point` for a Point (a list of numbers), `rings` for a Polygon (a list
\* of rings) and `polygons` for a MultiPolygon; the other two are <<>>.
Geom(type, point, rings, polygons) ==
    [type |-> type, point |-> point, rings |-> rings, polygons |-> polygons]

GeometryRaise == [raised |-> TRUE, lon |-> NoneNum, lat |-> NoneNum]

RingCentre(ring) ==
    IF ring = <<>> THEN GeometryRaise     \* coords[:, 0] of a 1-d array: IndexError
    ELSE [raised |-> FALSE, lon |-> ColumnMean(ring, 1), lat |-> ColumnMean(ring, 2)]

\* lines 32-39
GeometryEngine(geom) ==
    CASE geom.type = "Point" ->
             IF Len(geom.point) = 2      \* lon, lat = geom['coordinates']
             THEN [raised |-> FALSE, lon |-> Frac(geom.point[1], 1),
                                     lat |-> Frac(geom.point[2], 1)]
             ELSE GeometryRaise          \* ValueError: cannot unpack
      [] geom.type = "Polygon" ->
             IF geom.rings = <<>> THEN GeometryRaise      \* [0]: IndexError
             ELSE RingCentre(geom.rings[1])
      [] geom.type = "MultiPolygon" ->
             IF geom.polygons = <<>> THEN GeometryRaise
             ELSE IF geom.polygons[1] = <<>> THEN GeometryRaise
             ELSE RingCentre(geom.polygons[1][1])
      [] OTHER -> [raised |-> FALSE, lon |-> NoneNum, lat |-> NoneNum]

\* ---------------------------------------------------------- data frames
\* A frame is its set of columns and its rows in order.
EmptyFrame == [columns |-> {}, rows |-> <<>>]        \* pd.DataFrame()

GeoColumns == {"Center_Name", "Type", "Province", "Capacity", "Current_Evacuees",
               "Capacity_Status", "Health_Risk", "Last_Sensor_Ping", "lat", "lon",
               "Source"}

\* pd.DataFrame(geo_rows): a list of dicts gives their keys as columns; an
\* empty list gives a frame with no column at all.
DataFrame(rows) == IF rows = <<>> THEN EmptyFrame
                   ELSE [columns |-> GeoColumns, rows |-> rows]

HasCoords(row) == row.lat.k # "none" /\ row.lon.k # "none"

\* df.dropna(subset=['lat', 'lon']); the caller checks the columns first
dropna(df) == [df EXCEPT !.rows = SelectSeq(df.rows, HasCoords)]

\* Python's order on the province names of the model
ProvinceOrder == <<"Abra", "Bohol", "Unspecified">>
ProvinceRank(p) == CHOOSE k \in 1..Len(ProvinceOrder) : ProvinceOrder[k] = p

SortedByProvince(rows) ==
    \A a \in 1..(Len(rows) - 1) :
        ProvinceRank(rows[a].Province) <= ProvinceRank(rows[a + 1].Province)

\* numpy's generic argsort quicksort (npy_aquicksort), which pandas calls
\* for a column of Python strings: ts is the array of row positions being
\* permuted, key[r] the sort key of row r, pl..pr the range being sorted.
SMALL_QUICKSORT == 16

Swap(ts, a, b) == [ts EXCEPT ![a] = ts[b], ![b] = ts[a]]

\* the three conditional swaps that order the keys at pl, pm, pr
MedianOfThree(key, ts, pl, pm, pr) ==
    LET t1 == IF key[ts[pm]] < key[ts[pl]] THEN Swap(ts, pm, pl) ELSE ts
        t2 == IF key[t1[pr]] < key[t1[pm]] THEN Swap(t1, pr, pm) ELSE t1
    IN IF key[t2[pm]] < key[t2[pl]] THEN Swap(t2, pm, pl) ELSE t2

\* do ++pi while key < pivot (p is the position after the increment)
RECURSIVE ScanUp(_, _, _, _)
ScanUp(key, ts, p, vp) == IF key[ts[p]] < vp THEN ScanUp(key, ts, p + 1, vp) ELSE p

\* do --pj while pivot < key
RECURSIVE ScanDown(_, _, _, _)
ScanDown(key, ts, p, vp) == IF vp < key[ts[p]] THEN ScanDown(key, ts, p - 1, vp) ELSE p

RECURSIVE PartitionLoop(_, _, _, _, _)
PartitionLoop(key, ts, pi, pj, vp) ==
    LET i == ScanUp(key, ts, pi + 1, vp)
        j == ScanDown(key, ts, pj - 1, vp)
    IN IF i >= j THEN [ts |-> ts, pi |-> i]
       ELSE PartitionLoop(key, Swap(ts, i, j), i, j, vp)

\* one partition step: the pivot is parked at pr - 1, the two scans swap
\* misplaced pairs (rows whose key equals the pivot's are swapped too), and
\* the pivot goes to the position pi where the scans met
Partition(key, ts, pl, pr) ==
    LET pm == pl + ((pr - pl) \div 2)
        t3 == MedianOfThree(key, ts, pl, pm, pr)
        vp == key[t3[pm]]
        r  == PartitionLoop(key, Swap(t3, pm, pr - 1), pl, pr - 1, vp)
    IN [ts |-> Swap(r.ts, r.pi, pr - 1), pi |-> r.pi]

RECURSIVE Sift(_, _, _, _, _)
Sift(key, ts, pl, pj, vi) ==
    IF pj > pl /\ key[vi] < key[ts[pj - 1]]
    THEN Sift(key, [ts EXCEPT ![pj] = ts[pj - 1]], pl, pj - 1, vi)
    ELSE [ts EXCEPT ![pj] = vi]

\* the insertion sort of a range, from position pi on
RECURSIVE InsertionSort(_, _, _, _, _)
InsertionSort(key, ts, pl, pr, pi) ==
    IF pi > pr THEN ts
    ELSE InsertionSort(key, Sift(key, ts, pl, pi, ts[pi]), pl, pr, pi + 1)

\* Ranges of more than SMALL_QUICKSORT + 1 positions are partitioned, the
\* others insertion-sorted; the two sides of a partition are disjoint, so
\* the order in which the C loop takes them from its stack does not show.
\* The heapsort fallback needs more than 2 * floor(log2(n)) nested
\* partitions, each at least two positions shorter: no range below 34.
RECURSIVE aquicksort(_, _, _, _)
aquicksort(key, ts, pl, pr) ==
    IF pr - pl > SMALL_QUICKSORT
    THEN LET p == Partition(key, ts, pl, pr)
         IN aquicksort(key, aquicksort(key, p.ts, pl, p.pi - 1), p.pi + 1, pr)
    ELSE InsertionSort(key, ts, pl, pr, pl + 1)

Identity(n) == [k \in 1..n |-> k]

\* ndarray.argsort(kind='quicksort') of an object array
argsort(key) == aquicksort(key, Identity(Len(key)), 1, Len(key))

\* a stable argsort: the sort of an Arrow-backed string column
stable_argsort(key) == InsertionSort(key, Identity(Len(key)), 1, Len(key), 2)

take(rows, indexer) == [k \in 1..Len(rows) |-> rows[indexer[k]]]

\* the sort left out
sort_valuesMutant(rows) == {rows}

\* df.sort_values(by="Province"), kind left at its default 'quicksort'.
\* Which sort runs depends on the build: a column of Python str objects
\* (object dtype) is argsorted by numpy's quicksort above, which keeps equal
\* keys in order only while the frame is insertion-sorted (at most
\* SMALL_QUICKSORT + 1 rows); an Arrow-backed string column is sorted
\* stably.  Both outcomes are kept; they coincide on small frames.
sort_values(rows) ==
    LET key == [k \in 1..Len(rows) |-> ProvinceRank(rows[k].Province)]
    IN {take(rows, argsort(key)), take(rows, stable_argsort(key))}

\* -------------------------------------------------------------- inputs
\* The Excel file: unreadable, or a first sheet of nrows rows that has or
\* lacks the column 'Number of Evacuation Center'.
\* The registry rows are opaque to the program: a sheet is empty or not.
SheetSizes == {0, 1}

ExcelFiles == {[readable |-> FALSE, nrows |-> 0, has_count |-> FALSE]}
              \cup [readable : {TRUE}, nrows : SheetSizes, has_count : BOOLEAN]

Square == <<<<0, 0>>, <<2, 0>>, <<2, 2>>, <<0, 2>>>>

PointGeom == Geom("Point", <<121, 14>>, <<>>, <<>>)
LineGeom == Geom("LineString", <<>>, <<>>, <<>>)

Geometries ==
    { PointGeom,
      Geom("Point", <<>>, <<>>, <<>>),                        \* empty coordinate array
      Geom("Polygon", <<>>, <<Square>>, <<>>),
      Geom("Polygon", <<>>, <<>>, <<>>),                      \* no ring
      Geom("Polygon", <<>>, <<<<>>>>, <<>>),                  \* empty outer ring
      Geom("MultiPolygon", <<>>, <<>>, <<<<Square>>, <<Square>>>>),
      Geom("MultiPolygon", <<>>, <<>>, <<>>),                 \* no polygon
      LineGeom }

\* properties['province']: "" stands for an absent or empty value
Provinces == {"", "Abra"}

\* capacities of the features of the whole-run specification
RunCaps == {StrCap(<<"2">>), StrCap(<<"0">>), StrCap(<<"SUP2">>)}

FeatureInputs == [geometry : Geometries, capacity : RunCaps, province : Provinces]

\* capacities of the one-feature specification: every text of at most
\* MaxLen characters over CapAlphabet, the texts the documentation names,
\* None and some ints.
CapAlphabet == {"0", "1", "5", "-", ">", "SUP2"}

Texts(n) == UNION {[1..k -> CapAlphabet] : k \in 0..n}

NamedTexts == { <<"5", "0", "-", "1", "5", "0">>,
                <<"1", "0", "-", "2", "0", "-", "3", "0">>,
                <<">", "5", "0", "0">>,
                <<">", "5", "0", "0", "-", "1", "0", "0", "0">>,
                <<"1", "0", "0", ">", "5", "0", "0">>,
                <<"+", "5", "-", "7">> }

RawCaps == {NoneCap} \cup {StrCap(s) : s \in Texts(MaxLen) \cup NamedTexts}
           \cup {IntCap(n) : n \in {0, 50, -5}}

\* --------------------------------------------------------------- state
VARIABLES
    geo_file,       \* "ok" | "missing": can ph_evacs_cleaned.geojson be read
    excel_file,     \* an element of ExcelFiles
    pc,             \* position in load_data, then in the script
    feature,        \* the feature of the current iteration
    lon, lat, real_cap, occ, cap_status, health_risk,      \* loop locals
    geo_rows,       \* list of row dicts
    df_geo,         \* load_data's local df_geo
    df_excel,       \* load_data's local df_excel
    raised_at,      \* "none", or the step whose exception reached line 106
    diag,           \* number of st.error messages shown
    m_df_geo,       \* the script's df_geo (line 111)
    df_admin,       \* the script's df_admin (line 111)
    selected_prov, df_selection, total_cap, total_evac, zoom_level

inputs == <<geo_file, excel_file>>
locals == <<feature, lon, lat, real_cap, occ, cap_status, health_risk>>
frames == <<df_geo, df_excel>>
result == <<m_df_geo, df_admin>>
script == <<selected_prov, df_selection, total_cap, total_evac, zoom_level>>
vars == <<geo_file, excel_file, pc, feature, lon, lat, real_cap, occ,
          cap_status, health_risk, geo_rows, df_geo, df_excel, raised_at, diag,
          m_df_geo, df_admin, selected_prov, df_selection, total_cap, total_evac,
          zoom_level>>

NoFeature == [geometry |-> Geom("none", <<>>, <<>>, <<>>), capacity |-> NoneCap,
              province |-> ""]

Blank ==
    /\ feature = NoFeature
    /\ lon = NoneNum /\ lat = NoneNum
    /\ real_cap = 0 /\ occ = 0 /\ cap_status = "" /\ health_risk = ""
    /\ geo_rows = <<>> /\ df_geo = EmptyFrame /\ df_excel = EmptyFrame
    /\ raised_at = "none" /\ diag = 0
    /\ m_df_geo = EmptyFrame /\ df_admin = EmptyFrame
    /\ selected_prov = "" /\ df_selection = EmptyFrame
    /\ total_cap = 0 /\ total_evac = 0 /\ zoom_level = 0

\* the script calls load_data() at line 111
Init ==
    /\ geo_file \in {"ok", "missing"}
    /\ excel_file \in ExcelFiles
    /\ pc = "open_geo"
    /\ Blank

\* one feature already taken by the loop and past the geometry engine
InitFeature ==
    /\ geo_file = "ok"
    /\ excel_file = [readable |-> TRUE, nrows |-> 0, has_count |-> FALSE]
    /\ pc = "capacity"
    /\ \E raw \in RawCaps :
          feature = [geometry |-> PointGeom, capacity |-> raw, province |-> ""]
    /\ lon = GeometryEngine(PointGeom).lon /\ lat = GeometryEngine(PointGeom).lat
    /\ real_cap = 0 /\ occ = 0 /\ cap_status = "" /\ health_risk = ""
    /\ geo_rows = <<>> /\ df_geo = EmptyFrame /\ df_excel = EmptyFrame
    /\ raised_at = "none" /\ diag = 0
    /\ m_df_geo = EmptyFrame /\ df_admin = EmptyFrame
    /\ selected_prov = "" /\ df_selection = EmptyFrame
    /\ total_cap = 0 /\ total_evac = 0 /\ zoom_level = 0

\* ------------------------------------------------------------ load_data
\* lines 106-108: the one handler of the one try block.  It shows the
\* message and returns two empty frames, whatever had been built.
Except(where) ==
    /\ raised_at' = where
    /\ diag' = diag + 1
    /\ m_df_geo' = EmptyFrame
    /\ df_admin' = EmptyFrame
    /\ pc' = "loaded"

\* lines 22-26
OpenGeo ==
    /\ pc = "open_geo"
    /\ IF geo_file = "missing"
       THEN Except("open_geo") /\ UNCHANGED geo_rows
       ELSE /\ geo_rows' = <<>>
            /\ pc' = "loop"
            /\ UNCHANGED <<raised_at, diag, result>>
    /\ UNCHANGED <<inputs, locals, frames, script>>

\* lines 27-39: the loop takes its next feature and resolves its geometry
ResolveGeometry ==
    /\ pc = "loop"
    /\ Len(geo_rows) < MaxFeatures
    /\ \E f \in FeatureInputs :
          LET g == GeometryEngine(f.geometry) IN
          /\ feature' = f
          /\ IF g.raised
             THEN Except("geometry") /\ UNCHANGED <<lon, lat>>
             ELSE /\ lon' = g.lon /\ lat' = g.lat
                  /\ pc' = "capacity"
                  /\ UNCHANGED <<raised_at, diag, result>>
    /\ UNCHANGED <<inputs, real_cap, occ, cap_status, health_risk, geo_rows, frames,
                   script>>

\* lines 42-49
ParseCapacity ==
    /\ pc = "capacity"
    /\ LET c == CapacityLogic(feature.capacity) IN
       IF c.raised
       THEN Except("capacity") /\ UNCHANGED real_cap
       ELSE /\ real_cap' = c.cap
            /\ pc' = "occupancy"
            /\ UNCHANGED <<raised_at, diag, result>>
    /\ UNCHANGED <<inputs, feature, lon, lat, occ, cap_status, health_risk,
                   geo_rows, frames, script>>

\* the closed range of Python's random.randint
randintMutant(low, high) == low..high

\* np.random.randint(low, high): the integers of [low, high)
randint(low, high) == low..(high - 1)

\* line 52; np.random.randint raises ValueError when high <= low
SimulateOccupancy ==
    /\ pc = "occupancy"
    /\ IF OccupancyHigh(real_cap) <= 0
       THEN Except("occupancy") /\ UNCHANGED occ
       ELSE /\ \E o \in randint(0, OccupancyHigh(real_cap)) : occ' = o
            /\ pc' = "status"
            /\ UNCHANGED <<raised_at, diag, result>>
    /\ UNCHANGED <<inputs, feature, lon, lat, real_cap, cap_status,
                   health_risk, geo_rows, frames, script>>

\* the columns of a row that the model keeps; index is the row's label in
\* the frame built at line 86 (its position in geo_rows, from 0)
Row(f, cap, o, cs, hr, la, lo, idx) ==
    [index |-> idx,
     Province |-> IF f.province # "" THEN f.province ELSE "Unspecified",
     Capacity |-> cap, Current_Evacuees |-> o,
     Capacity_Status |-> cs, Health_Risk |-> hr,
     lat |-> la, lon |-> lo]

\* lines 54-84
DualStatusLogic ==
    /\ pc = "status"
    /\ cap_status' = CapStatus(occ, real_cap)
    /\ health_risk' = HealthRisk(occ, real_cap)
    /\ geo_rows' = Append(geo_rows, Row(feature, real_cap, occ, cap_status',
                                        health_risk', lat, lon, Len(geo_rows)))
    /\ pc' = "loop"
    /\ UNCHANGED <<inputs, feature, lon, lat, real_cap, occ, frames,
                   raised_at, diag, result, script>>

\* lines 86-88, when the loop has run out of features.  dropna raises
\* KeyError when the frame lacks 'lat' or 'lon', which is the case of the
\* frame built from an empty list.
Assemble ==
    /\ pc = "loop"
    /\ LET frame == DataFrame(geo_rows) IN
       IF ~({"lat", "lon"} \subseteq frame.columns)
       THEN Except("assemble") /\ UNCHANGED df_geo
       ELSE /\ \E s \in sort_values(dropna(frame).rows) :
                  df_geo' = [columns |-> frame.columns, rows |-> s]
            /\ pc' = "excel"
            /\ UNCHANGED <<raised_at, diag, result>>
    /\ UNCHANGED <<inputs, locals, geo_rows, df_excel, script>>

\* lines 94-102: the sheet as read, 'Number of Evacuation Center' renamed
\* when present, 'Last_Audit' added
ExcelFrame(file) ==
    [columns |-> {"Municipality_City", "Province", "Region", "Last_Audit"}
                 \cup (IF file.has_count THEN {"Official_Count"} ELSE {}),
     rows |-> [k \in 1..file.nrows |-> [sheet_row |-> k]]]

\* lines 93-104
ReadExcel ==
    /\ pc = "excel"
    /\ IF ~excel_file.readable
       THEN Except("excel") /\ UNCHANGED df_excel
       ELSE /\ df_excel' = ExcelFrame(excel_file)
            /\ m_df_geo' = df_geo
            /\ df_admin' = df_excel'
            /\ pc' = "loaded"
            /\ UNCHANGED <<raised_at, diag>>
    /\ UNCHANGED <<inputs, locals, geo_rows, df_geo, script>>

\* --------------------------------------------------------------- script
RECURSIVE SumOf(_, _)
SumOf(rows, col) == IF rows = <<>> THEN 0 ELSE rows[1][col] + SumOf(Tail(rows), col)

\* lines 126-142: df_geo["Province"] and df_geo["Type"] raise KeyError on a
\* frame without these columns, and nothing catches it.  The type filter
\* keeps its default, every type selected.
Filters ==
    /\ pc = "loaded"
    /\ IF ~({"Province", "Type"} \subseteq m_df_geo.columns)
       THEN /\ pc' = "crashed"
            /\ UNCHANGED <<selected_prov, df_selection>>
       ELSE /\ \E sp \in {"All"} \cup {m_df_geo.rows[k].Province : k \in 1..Len(m_df_geo.rows)} :
                  /\ selected_prov' = sp
                  /\ df_selection' =
                        IF sp = "All" THEN m_df_geo
                        ELSE [m_df_geo EXCEPT !.rows =
                                 SelectSeq(m_df_geo.rows, LAMBDA r : r.Province = sp)]
            /\ pc' = "metrics"
    /\ UNCHANGED <<inputs, locals, geo_rows, frames, raised_at, diag, result,
                   total_cap, total_evac, zoom_level>>

\* lines 175-192
Metrics ==
    /\ pc = "metrics"
    /\ IF ~({"Capacity", "Current_Evacuees"} \subseteq df_selection.columns)
       THEN pc' = "crashed" /\ UNCHANGED <<total_cap, total_evac>>
       ELSE /\ total_cap' = SumOf(df_selection.rows, "Capacity")
            /\ total_evac' = SumOf(df_selection.rows, "Current_Evacuees")
            /\ pc' = "map"
    /\ UNCHANGED <<inputs, locals, geo_rows, frames, raised_at, diag, result,
                   selected_prov, df_selection, zoom_level>>

\* lines 199-204
MapCentre ==
    /\ pc = "map"
    /\ IF df_selection.rows # <<>>
       THEN IF ~({"lat", "lon"} \subseteq df_selection.columns)
            THEN pc' = "crashed" /\ UNCHANGED zoom_level
            ELSE /\ zoom_level' = (IF selected_prov = "All" THEN 5 ELSE 9)
                 /\ pc' = "tabs"
       ELSE zoom_level' = 5 /\ pc' = "tabs"
    /\ UNCHANGED <<inputs, locals, geo_rows, frames, raised_at, diag, result,
                   selected_prov, df_selection, total_cap, total_evac>>

\* lines 243-255
RecordTabs ==
    /\ pc = "tabs"
    /\ IF ~({"Center_Name", "Province", "Type", "Current_Evacuees", "Capacity",
             "Capacity_Status", "Health_Risk", "Last_Sensor_Ping"}
            \subseteq df_selection.columns)
       THEN pc' = "crashed"
       ELSE pc' = "done"
    /\ UNCHANGED <<inputs, locals, geo_rows, frames, raised_at, diag, result,
                   script>>

Next ==
    \/ OpenGeo
    \/ ResolveGeometry
    \/ ParseCapacity
    \/ SimulateOccupancy
    \/ DualStatusLogic
    \/ Assemble
    \/ ReadExcel
    \/ Filters
    \/ Metrics
    \/ MapCentre
    \/ RecordTabs

Spec == Init /\ [][Next]_vars

\* a collection of one feature, of any capacity value
NextFeature ==
    \/ ParseCapacity
    \/ SimulateOccupancy
    \/ DualStatusLogic
    \/ Assemble
    \/ ReadExcel

SpecFeature == InitFeature /\ [][NextFeature]_vars

\* ----------------------------------------------- frames of many rows
\* The loop has run over n features and is about to end: feature k is a
\* Point (a LineString when k = d) of capacity "2" drawn at occupancy 0,
\* without a province when k is in U and in Abra otherwise.
SortFeature(k, U, d) ==
    [geometry |-> IF k = d THEN LineGeom ELSE PointGeom,
     capacity |-> StrCap(<<"2">>),
     province |-> IF k \in U THEN "" ELSE "Abra"]

SortRow(k, U, d) ==
    LET f == SortFeature(k, U, d)
        g == GeometryEngine(f.geometry)
        c == CapacityLogic(f.capacity).cap
    IN Row(f, c, 0, CapStatus(0, c), HealthRisk(0, c), g.lat, g.lon, k - 1)

MinSortRows == 15

InitSort ==
    /\ geo_file = "ok"
    /\ excel_file = [readable |-> TRUE, nrows |-> 1, has_count |-> TRUE]
    /\ pc = "loop"
    /\ \E n \in MinSortRows..MaxSortRows :
       \E d \in 0..n :
       \E U \in {S \in SUBSET (1..n) : Cardinality(S) <= 2} :
          /\ geo_rows = [k \in 1..n |-> SortRow(k, U, d)]
          /\ feature = SortFeature(n, U, d)
    /\ lon = geo_rows[Len(geo_rows)].lon /\ lat = geo_rows[Len(geo_rows)].lat
    /\ real_cap = geo_rows[Len(geo_rows)].Capacity
    /\ occ = geo_rows[Len(geo_rows)].Current_Evacuees
    /\ cap_status = geo_rows[Len(geo_rows)].Capacity_Status
    /\ health_risk = geo_rows[Len(geo_rows)].Health_Risk
    /\ df_geo = EmptyFrame /\ df_excel = EmptyFrame
    /\ raised_at = "none" /\ diag = 0
    /\ m_df_geo = EmptyFrame /\ df_admin = EmptyFrame
    /\ selected_prov = "" /\ df_selection = EmptyFrame
    /\ total_cap = 0 /\ total_evac = 0 /\ zoom_level = 0

NextSort ==
    \/ Assemble
    \/ ReadExcel

SpecSort == InitSort /\ [][NextSort]_vars

\* =============================================================== claims
AfterLoad == {"loaded", "metrics", "map", "tabs", "done", "crashed"}
CapacityParsed == {"occupancy", "status", "loop", "excel"}
GeoSteps == {"open_geo", "geometry", "capacity", "occupancy", "assemble"}
Marker == <<">", "5", "0", "0">>
Dash == <<"-">>

\* C1: when exactly one of the two sources fails, only that source's
\* result is empty: a readable, non-empty registry is returned although
\* the GeoJSON source failed, and a non-empty facility frame is returned
\* although the registry could not be read.
C1_OnlyFailedSourceEmpty ==
    /\ (raised_at \in GeoSteps /\ excel_file.readable /\ excel_file.nrows > 0)
          => df_admin = ExcelFrame(excel_file)
    /\ (raised_at = "excel" /\ df_geo.rows # <<>>)
          => m_df_geo = df_geo

\* C2: a readable feature collection with zero features gives an empty
\* facility collection without the error path: no exception, no diagnostic,
\* and the registry result is what the registry alone gives.
C2_EmptyCollectionNoError ==
    (pc \in AfterLoad /\ geo_file = "ok" /\ feature = NoFeature /\ excel_file.readable)
       => /\ raised_at = "none"
          /\ diag = 0
          /\ m_df_geo.rows = <<>>
          /\ df_admin = ExcelFrame(excel_file)

\* C3: after load_data took its failure path the rest of the run raises no
\* unhandled error, and the one diagnostic is the only effect.
C3_FailurePathRunCompletes ==
    raised_at # "none" => (pc # "crashed" /\ diag = 1)

\* C4: for every raw capacity value, capacity parsing raises nothing and
\* yields an integer greater than 0, so occupancy simulation proceeds.
C4_CapacityAlwaysPositive ==
    /\ raised_at \notin {"capacity", "occupancy"}
    /\ pc \in CapacityParsed => real_cap > 0

BadGeometry(g) ==
    \/ g.type \notin {"Point", "Polygon", "MultiPolygon"}
    \/ g.type = "Point" /\ Len(g.point) # 2
    \/ g.type = "Polygon" /\ (g.rings = <<>> \/ g.rings[1] = <<>>)
    \/ g.type = "MultiPolygon"
          /\ (g.polygons = <<>> \/ g.polygons[1] = <<>> \/ g.polygons[1][1] = <<>>)

\* C5: a feature of an unsupported geometry kind, or with an empty or
\* malformed coordinate array, gets no coordinates and is merely dropped:
\* its geometry raises nothing and the loop goes on with absent lat/lon.
C5_BadGeometryOnlyDropsFeature ==
    (feature # NoFeature /\ BadGeometry(feature.geometry))
       => /\ raised_at # "geometry"
          /\ pc \in {"capacity", "occupancy", "status"}
                => (lat = NoneNum /\ lon = NoneNum)

\* C6 as stated: every capacity text that contains ">500" anywhere, also
\* beside a "-", parses to exactly 600.
C6_MarkerAnywhereGives600 ==
    (pc \in CapacityParsed /\ feature.capacity.t = "str"
       /\ Contains(feature.capacity.s, Marker))
       => real_cap = OpenEndedCap

\* C6 amended: every capacity text that contains ">500" and no "-" parses
\* to exactly 600.
C6_MarkerWithoutDashGives600 ==
    (pc \in CapacityParsed /\ feature.capacity.t = "str"
       /\ Contains(feature.capacity.s, Marker)
       /\ ~Contains(feature.capacity.s, Dash))
       => real_cap = OpenEndedCap

C6_Witness ==
    /\ pc = "occupancy"
    /\ feature.capacity = StrCap(<<"1", "0", "0", ">", "5", "0", "0">>)
    /\ real_cap = OpenEndedCap

\* C7: for every capacity >= 1 and occupancy, both status fields name the
\* tier of occupancy/capacity: top exactly when occupancy > capacity,
\* middle exactly when 0.8 * capacity <= occupancy <= capacity, bottom
\* otherwise; so the two statuses are in lock-step.
C7_StatusTiersInLockStep ==
    \A k \in 1..Len(geo_rows) :
       LET r == geo_rows[k]
           o == r.Current_Evacuees
           c == r.Capacity
           top == o > c
           middle == 5 * o >= 4 * c /\ o <= c
       IN c >= 1 =>
          /\ r.Capacity_Status = "Overcrowded (>100%)" <=> top
          /\ r.Health_Risk = "CRITICAL: High Infection Risk" <=> top
          /\ r.Capacity_Status = "Near Full (80-99%)" <=> middle
          /\ r.Health_Risk = "WARNING: Elevated Density" <=> middle
          /\ r.Capacity_Status = "Available (<80%)" <=> (~top /\ ~middle)
          /\ r.Health_Risk = "SAFE: Social Distancing Possible" <=> (~top /\ ~middle)

C7_Witness ==
    /\ Len(geo_rows) = 1
    /\ geo_rows[1].Capacity = 600 /\ geo_rows[1].Current_Evacuees = 480
    /\ geo_rows[1].Capacity_Status = "Near Full (80-99%)"
    /\ geo_rows[1].Health_Risk = "WARNING: Elevated Density"

\* C8: every record of the collection load_data returns has
\* 0 <= Current_Evacuees < floor(Capacity * 1.5).
C8_OccupancyBelowOneAndAHalf ==
    \A k \in 1..Len(m_df_geo.rows) :
       LET r == m_df_geo.rows[k] IN
       /\ 0 <= r.Current_Evacuees
       /\ 2 * (r.Current_Evacuees + 1) <= 3 * r.Capacity

C8_Witness ==
    /\ pc = "loaded" /\ raised_at = "none"
    /\ Len(m_df_geo.rows) = 1
    /\ m_df_geo.rows[1].Capacity = 1 /\ m_df_geo.rows[1].Current_Evacuees = 0

Returned == pc \in AfterLoad /\ raised_at = "none"

NoMissingCoords == \A k \in 1..Len(m_df_geo.rows) : HasCoords(m_df_geo.rows[k])

NonDecreasingByProvince ==
    \A a, b \in 1..Len(m_df_geo.rows) :
       a < b => ProvinceRank(m_df_geo.rows[a].Province)
                   <= ProvinceRank(m_df_geo.rows[b].Province)

TiesInInputOrder ==
    \A a, b \in 1..Len(m_df_geo.rows) :
       (a < b /\ m_df_geo.rows[a].Province = m_df_geo.rows[b].Province)
          => m_df_geo.rows[a].index < m_df_geo.rows[b].index

SameRecordsAsInput ==
    /\ Len(m_df_geo.rows) = Len(SelectSeq(geo_rows, HasCoords))
    /\ {m_df_geo.rows[k] : k \in 1..Len(m_df_geo.rows)}
          = {geo_rows[k] : k \in {j \in 1..Len(geo_rows) : HasCoords(geo_rows[j])}}

SplitOnceAverage(s) ==
    LET k == CHOOSE j \in 1..Len(s) : s[j] = "-" /\ \A m \in 1..(j - 1) : s[m] # "-"
        L == IntOfStr(SubSeq(s, 1, k - 1))
        R == IntOfStr(SubSeq(s, k + 1, Len(s)))
    IN IF L.ok /\ R.ok THEN (L.v + R.v) \div 2 ELSE DefaultCap

\* C10: for every non-empty capacity text that is not all digits and
\* contains "-", the capacity is (L + R) // 2 when the text before the
\* first "-" and the whole text after it are integers, and 100 otherwise.
C10_SplitOnceOnFirstDash ==
    (pc \in CapacityParsed /\ feature.capacity.t = "str"
       /\ ~isdigit(feature.capacity.s) /\ Contains(feature.capacity.s, Dash))
       => real_cap = SplitOnceAverage(feature.capacity.s)

====
